---- MODULE Spec2Model ----
(***************************************************************************)
(* Model of the adventurers terminal game: the tick-driven controller of   *)
(* adventurers/src/main.rs (MyGame over MapPlace), the Player of           *)
(* adventurers/src/player.rs, and the quest state machines of              *)
(* adventurers/src/quest.rs and adventurers_quest/src/lib.rs.              *)
(*                                                                         *)
(* Values of Rust enums are tuples <<tag, payload>> so that all values of  *)
(* one type are comparable.  GameVar.frame is a write-only tick counter    *)
(* (main.rs:530) and is left out of the state.                             *)
(***************************************************************************)
EXTENDS Integers, Sequences, FiniteSets, TLC

VARIABLES
    game_var,     \* MyGame.game_var : GameVar
    game_static,  \* MyGame.game_static : GameStatic
    terminal,     \* what game.screen_size() returns (the terminal's size)
    last,         \* history: the handler that ran last and what it did
    quest,        \* a QuestProgress or a quest (StepQuest, PickupQuest, CompoundQuest)
    log,          \* history: what a QuestProgress, StepQuest or PickupQuest was given since it was fresh
    qlast,        \* history: the last call on quest, its argument and its result
    twin,         \* history: a quest built anew at the last reset of quest and given the same calls since
    map_layers,   \* a MapLayers of map.rs
    hero,         \* the Player of player.rs that moves over map_layers
    play          \* the game over map_layers: its status and what the last step produced

game_vars == <<game_var, game_static, terminal, last>>

quest_vars == <<quest, log, qlast, twin>>

play_vars == <<map_layers, hero, play>>

vars == <<game_var, game_static, terminal, last, quest, log, qlast, twin, map_layers, hero, play>>

\* ------------------------------------------------------------------------
\* Constants of the program
\* ------------------------------------------------------------------------

VIEW_PADDING == 2

PLAYER_INIT_OXYGEN == 10

\* ------------------------------------------------------------------------
\* The static input: the raw map read from the map file, and the terminal
\* ------------------------------------------------------------------------

\* enum BackgroundVariant of main.rs, <<tag, payload>>
Grass == <<"Grass", "">>
Sand == <<"Sand", "">>
Barrier == <<"Barrier", "">>
Water == <<"Water", "">>
Sign(s) == <<"Sign", s>>
Object(c) == <<"Object", c>>

\* Option<BackgroundVariant>::None
NoBackground == <<"None", "">>

\* A wall of barriers around a 3x3 room that holds the start position (3,3).
WallCells == {p \in (1..5) \X (1..5) : p[1] \in {1, 5} \/ p[2] \in {1, 5}}

\* The room:   x=2      x=3      x=4
\*     y=2     Water    Water    Object x
\*     y=3     Barrier  Grass    (unlisted)
\*     y=4     Sand     Sign     (unlisted)
RoomCells == {<<2, 2>>, <<3, 2>>, <<4, 2>>, <<2, 3>>, <<3, 3>>, <<2, 4>>, <<3, 4>>}

RoomObject(p) ==
    CASE p = <<2, 2>> -> Water
      [] p = <<3, 2>> -> Water
      [] p = <<4, 2>> -> Object("x")
      [] p = <<2, 3>> -> Barrier
      [] p = <<3, 3>> -> Grass
      [] p = <<2, 4>> -> Sand
      [] p = <<3, 4>> -> Sign("hi")

\* RawGameMap = HashMap<Position, BackgroundVariant>
RawGameMap == [p \in WallCells \cup RoomCells |-> IF p \in WallCells THEN Barrier ELSE RoomObject(p)]

\* The order in which the HashMap iterator yields the entries of the raw map.
\* It is unspecified but the same on every iteration of the same map.
RECURSIVE SeqOfSet(_)
SeqOfSet(S) ==
    IF S = {} THEN <<>>
    ELSE LET p == CHOOSE q \in S : \A r \in S : q[2] < r[2] \/ (q[2] = r[2] /\ q[1] <= r[1])
         IN <<p>> \o SeqOfSet(S \ {p})

RawGameMapIter == SeqOfSet(DOMAIN RawGameMap)

\* The sizes (width, (game_height, message_height)) the terminal may have.
ScreenSizes == {<<7, <<5, 3>>>>, <<4, <<2, 1>>>>}

\* The keys the engine reports: the four arrows, Enter, Char('t'), and any
\* other key or non-plain event.
KeyCodes == {"Left", "Right", "Up", "Down", "Enter", "t", "Other"}

\* ------------------------------------------------------------------------
\* Position, Control
\* ------------------------------------------------------------------------

Position_default == <<0, 0>>

Position_add(a, b) == <<a[1] + b[1], a[2] + b[2]>>

is_origin(p) == p[1] = 0 /\ p[2] = 0

Control_default == [up |-> FALSE, down |-> FALSE, left |-> FALSE, right |-> FALSE]

Control_clear(control) == Control_default

\* From<&Control> for Position in which left overrides right and up overrides down
Position_from_left_wins(control) ==
    <<IF control.left THEN 0 - 1 ELSE IF control.right THEN 1 ELSE 0,
      IF control.up THEN 0 - 1 ELSE IF control.down THEN 1 ELSE 0>>

Position_from(control) ==
    LET x1 == IF control.left THEN 0 - 1 ELSE 0
        x2 == IF control.right THEN x1 + 1 ELSE x1
        y1 == IF control.up THEN 0 - 1 ELSE 0
        y2 == IF control.down THEN y1 + 1 ELSE y1
    IN <<x2, y2>>

\* ------------------------------------------------------------------------
\* Place, MapPlace
\* ------------------------------------------------------------------------

BackgroundVariant_is_barrier(b) == b = Barrier

BackgroundVariant_is_water(b) == b = Water

Place_default == [player |-> FALSE, background |-> NoBackground]

Place_is_water(place) ==
    IF place.background # NoBackground THEN BackgroundVariant_is_water(place.background) ELSE FALSE

\* Place::is_barrier that takes a place without a background for a barrier
Place_is_barrier_without_background(place) ==
    IF place.background # NoBackground THEN BackgroundVariant_is_barrier(place.background) ELSE TRUE

Place_is_barrier(place) ==
    IF place.background # NoBackground THEN BackgroundVariant_is_barrier(place.background) ELSE FALSE

MapPlace_default == [should_draw |-> <<>>, map |-> <<>>]

MapPlace_is_water(map_place, position) ==
    IF position \in DOMAIN map_place.map THEN Place_is_water(map_place.map[position]) ELSE FALSE

MapPlace_is_barrier(map_place, position) ==
    IF position \in DOMAIN map_place.map THEN Place_is_barrier(map_place.map[position]) ELSE FALSE

\* impl From<&RawGameMap> for MapPlace: Object and Sign entries are skipped.
MapPlace_from(raw_game_map) ==
    LET kept == {p \in DOMAIN raw_game_map : raw_game_map[p][1] \notin {"Object", "Sign"}}
    IN [should_draw |-> SelectSeq(RawGameMapIter, LAMBDA p : p \in kept),
        map |-> [p \in kept |-> [player |-> FALSE, background |-> raw_game_map[p]]]]

\* ------------------------------------------------------------------------
\* Player
\* ------------------------------------------------------------------------

NoPosition == <<"None", 0, 0>>

SomePosition(p) == <<"Some", p[1], p[2]>>

Player_default ==
    [update_draw |-> TRUE,
     position |-> Position_default,
     bag |-> <<>>,
     previous_position |-> NoPosition,
     oxygen |-> PLAYER_INIT_OXYGEN]

move_to(player, position) == [player EXCEPT !.position = position, !.update_draw = TRUE]

\* interact_background without the refill on a tile that is not water
interact_background_no_refill(player, map_place) ==
    IF MapPlace_is_water(map_place, player.position)
    THEN [player EXCEPT !.oxygen = player.oxygen - 1]
    ELSE player

interact_background(player, map_place) ==
    IF MapPlace_is_water(map_place, player.position)
    THEN [player EXCEPT !.oxygen = player.oxygen - 1]
    ELSE [player EXCEPT !.oxygen = PLAYER_INIT_OXYGEN]

\* MapPlace::update_player; the result is the pair <<map_place, player>>.
MapPlace_update_player(map_place, player) ==
    IF ~player.update_draw THEN <<map_place, player>>
    ELSE LET prev == player.previous_position
             prevpos == <<prev[2], prev[3]>>
             m1 == IF prev # NoPosition /\ prevpos \in DOMAIN map_place.map
                   THEN [map_place.map EXCEPT ![prevpos].player = FALSE]
                   ELSE map_place.map
             d1 == IF prev # NoPosition THEN Append(map_place.should_draw, prevpos)
                   ELSE map_place.should_draw
             m2 == IF player.position \in DOMAIN m1
                   THEN [m1 EXCEPT ![player.position].player = TRUE]
                   ELSE [p \in DOMAIN m1 \cup {player.position} |->
                            IF p = player.position THEN [Place_default EXCEPT !.player = TRUE]
                            ELSE m1[p]]
         IN <<[should_draw |-> Append(d1, player.position), map |-> m2],
              [player EXCEPT !.previous_position = SomePosition(player.position),
                             !.update_draw = FALSE]>>

\* MapPlace::draw: every position of should_draw is written to the screen and
\* the list is drained.
MapPlace_draw(map_place) == [map_place EXCEPT !.should_draw = <<>>]

\* ------------------------------------------------------------------------
\* GameVar, GameStatic, MyGame
\* ------------------------------------------------------------------------

NoMessage == <<"None", "", 0, 0>>

\* Some(("Test", "Pos: (x, y)"))
DebugMessage(position) == <<"Some", "Test", position[1], position[2]>>

\* Some(("You Died", "You died from drown, press Enter to restart."))
DiedMessage == <<"Some", "You Died", 0, 0>>

GameVar_default ==
    [game_status |-> "Running",
     control |-> Control_default,
     viewport_position |-> Position_default,
     message |-> NoMessage,
     show_message |-> FALSE,
     player |-> Player_default,
     map_place |-> MapPlace_default]

MyGame_new(raw_game_map) ==
    [game_var |-> GameVar_default,
     game_static |-> [raw_game_map |-> raw_game_map, screen_size |-> <<0, <<0, 0>>>>]]

\* init that rebuilds the map but keeps the player of the previous run
init_keeps_player(gv, gs, screen_size) ==
    <<[GameVar_default EXCEPT !.map_place = MapPlace_from(gs.raw_game_map), !.player = gv.player],
      [gs EXCEPT !.screen_size = screen_size]>>

\* MyGame::init; the result is the pair <<game_var, game_static>>.
init(gv, gs, screen_size) ==
    <<[GameVar_default EXCEPT !.map_place = MapPlace_from(gs.raw_game_map)],
      [gs EXCEPT !.screen_size = screen_size]>>

\* update_player_position without the barrier check
update_player_position_no_barrier(gv) ==
    LET move_by == Position_from(gv.control)
        next == Position_add(gv.player.position, move_by)
    IN IF is_origin(move_by) THEN gv
       ELSE [gv EXCEPT !.player = interact_background(move_to(gv.player, next), gv.map_place)]

\* update_player_position that applies the oxygen rule in every tick
update_player_position_every_tick(gv) ==
    LET move_by == Position_from(gv.control)
        next == Position_add(gv.player.position, move_by)
    IN IF is_origin(move_by) \/ MapPlace_is_barrier(gv.map_place, next)
       THEN [gv EXCEPT !.player = interact_background(gv.player, gv.map_place)]
       ELSE [gv EXCEPT !.player = interact_background(move_to(gv.player, next), gv.map_place)]

\* update_player_position that applies the oxygen rule to a rejected move
update_player_position_rejected_interacts(gv) ==
    LET move_by == Position_from(gv.control)
        next == Position_add(gv.player.position, move_by)
    IN IF is_origin(move_by) THEN gv
       ELSE IF MapPlace_is_barrier(gv.map_place, next)
            THEN [gv EXCEPT !.player = interact_background(gv.player, gv.map_place)]
       ELSE [gv EXCEPT !.player = interact_background(move_to(gv.player, next), gv.map_place)]

update_player_position(gv) ==
    LET move_by == Position_from(gv.control)
        next == Position_add(gv.player.position, move_by)
    IN IF is_origin(move_by) THEN gv
       ELSE IF MapPlace_is_barrier(gv.map_place, next) THEN gv
       ELSE [gv EXCEPT !.player = interact_background(move_to(gv.player, next), gv.map_place)]

\* update_viewport_position that reads each margin after the nudges before it
update_viewport_position_margins_reread(gv, gs) ==
    LET width == gs.screen_size[1]
        game_height == gs.screen_size[2][1]
        message_height == gs.screen_size[2][2]
        x == gv.player.position[1]
        y == gv.player.position[2]
        vp == gv.viewport_position
        v1 == IF x - vp[1] < VIEW_PADDING THEN <<vp[1] - 1, vp[2]>> ELSE vp
        v2 == IF y - v1[2] < VIEW_PADDING THEN <<v1[1], v1[2] - 1>> ELSE v1
        v3 == IF v2[1] + width - 2 - x < VIEW_PADDING THEN <<v2[1] + 1, v2[2]>> ELSE v2
        v4 == IF v3[2] + game_height + message_height - 3 - y < VIEW_PADDING
              THEN <<v3[1], v3[2] + 1>> ELSE v3
    IN [gv EXCEPT !.viewport_position = v4]

\* update_viewport_position in which the right and bottom checks are the else
\* branches of the left and top checks
update_viewport_position_else_if(gv, gs) ==
    LET width == gs.screen_size[1]
        game_height == gs.screen_size[2][1]
        message_height == gs.screen_size[2][2]
        x == gv.player.position[1]
        y == gv.player.position[2]
        vp == gv.viewport_position
        left == x - vp[1]
        top == y - vp[2]
        right == vp[1] + width - 2 - x
        bottom == vp[2] + game_height + message_height - 3 - y
        vx == IF left < VIEW_PADDING THEN vp[1] - 1
              ELSE IF right < VIEW_PADDING THEN vp[1] + 1 ELSE vp[1]
        vy == IF top < VIEW_PADDING THEN vp[2] - 1
              ELSE IF bottom < VIEW_PADDING THEN vp[2] + 1 ELSE vp[2]
    IN [gv EXCEPT !.viewport_position = <<vx, vy>>]

update_viewport_position(gv, gs) ==
    LET width == gs.screen_size[1]
        game_height == gs.screen_size[2][1]
        message_height == gs.screen_size[2][2]
        x == gv.player.position[1]
        y == gv.player.position[2]
        vp == gv.viewport_position
        left == x - vp[1]
        top == y - vp[2]
        right == vp[1] + width - 2 - x
        bottom == vp[2] + game_height + message_height - 3 - y
        v1 == IF left < VIEW_PADDING THEN <<vp[1] - 1, vp[2]>> ELSE vp
        v2 == IF top < VIEW_PADDING THEN <<v1[1], v1[2] - 1>> ELSE v1
        v3 == IF right < VIEW_PADDING THEN <<v2[1] + 1, v2[2]>> ELSE v2
        v4 == IF bottom < VIEW_PADDING THEN <<v3[1], v3[2] + 1>> ELSE v3
    IN [gv EXCEPT !.viewport_position = v4]

\* Controller::on_start; the result is the pair <<game_var, game_static>>.
on_start(gv, gs, screen_size) ==
    LET i == init(gv, gs, screen_size)
        player == move_to(i[1].player, <<3, 3>>)
        up == MapPlace_update_player(i[1].map_place, player)
    IN <<[i[1] EXCEPT !.map_place = up[1], !.player = up[2]], i[2]>>

\* on_event without the early return of the Died branch
on_event_died_keys(gv, gs, screen_size, key_code) ==
    IF gv.game_status = "Died" /\ key_code = "Enter"
    THEN LET i == init(gv, gs, screen_size)
         IN on_start(i[1], i[2], screen_size)
    ELSE <<CASE key_code = "t" -> [gv EXCEPT !.show_message = ~gv.show_message]
             [] key_code = "Left" -> [gv EXCEPT !.control.left = TRUE]
             [] key_code = "Right" -> [gv EXCEPT !.control.right = TRUE]
             [] key_code = "Up" -> [gv EXCEPT !.control.up = TRUE]
             [] key_code = "Down" -> [gv EXCEPT !.control.down = TRUE]
             [] OTHER -> gv,
           gs>>

\* Controller::on_event; the result is the pair <<game_var, game_static>>.
on_event(gv, gs, screen_size, key_code) ==
    IF gv.game_status = "Died"
    THEN IF key_code = "Enter"
         THEN LET i == init(gv, gs, screen_size)
              IN on_start(i[1], i[2], screen_size)
         ELSE <<gv, gs>>
    ELSE <<CASE key_code = "t" -> [gv EXCEPT !.show_message = ~gv.show_message]
             [] key_code = "Left" -> [gv EXCEPT !.control.left = TRUE]
             [] key_code = "Right" -> [gv EXCEPT !.control.right = TRUE]
             [] key_code = "Up" -> [gv EXCEPT !.control.up = TRUE]
             [] key_code = "Down" -> [gv EXCEPT !.control.down = TRUE]
             [] OTHER -> gv,
           gs>>

\* on_tick that detects death only when oxygen is below zero
on_tick_late_death(gv, gs) ==
    LET g1 == update_player_position(gv)
        g2 == update_viewport_position(g1, gs)
        up == MapPlace_update_player(g2.map_place, g2.player)
        player == up[2]
        g3 == [g2 EXCEPT !.map_place = MapPlace_draw(up[1]),
                         !.player = player,
                         !.control = Control_clear(g2.control),
                         !.message = DebugMessage(player.position)]
    IN IF player.oxygen < 0
       THEN [g3 EXCEPT !.message = DiedMessage, !.show_message = TRUE, !.game_status = "Died"]
       ELSE g3

\* on_tick that updates the viewport before it moves the player
on_tick_viewport_first(gv, gs) ==
    LET g1 == update_viewport_position(gv, gs)
        g2 == update_player_position(g1)
        up == MapPlace_update_player(g2.map_place, g2.player)
        player == up[2]
        g3 == [g2 EXCEPT !.map_place = MapPlace_draw(up[1]),
                         !.player = player,
                         !.control = Control_clear(g2.control),
                         !.message = DebugMessage(player.position)]
    IN IF player.oxygen <= 0
       THEN [g3 EXCEPT !.message = DiedMessage, !.show_message = TRUE, !.game_status = "Died"]
       ELSE g3

\* on_tick that takes oxygen 1 for depleted
on_tick_dies_at_one(gv, gs) ==
    LET g1 == update_player_position(gv)
        g2 == update_viewport_position(g1, gs)
        up == MapPlace_update_player(g2.map_place, g2.player)
        player == up[2]
        g3 == [g2 EXCEPT !.map_place = MapPlace_draw(up[1]),
                         !.player = player,
                         !.control = Control_clear(g2.control),
                         !.message = DebugMessage(player.position)]
    IN IF player.oxygen <= 1
       THEN [g3 EXCEPT !.message = DiedMessage, !.show_message = TRUE, !.game_status = "Died"]
       ELSE g3

\* on_tick without control.clear()
on_tick_keeps_control(gv, gs) ==
    LET g1 == update_player_position(gv)
        g2 == update_viewport_position(g1, gs)
        up == MapPlace_update_player(g2.map_place, g2.player)
        player == up[2]
        g3 == [g2 EXCEPT !.map_place = MapPlace_draw(up[1]),
                         !.player = player,
                         !.message = DebugMessage(player.position)]
    IN IF player.oxygen <= 0
       THEN [g3 EXCEPT !.message = DiedMessage, !.show_message = TRUE, !.game_status = "Died"]
       ELSE g3

\* Controller::on_tick
on_tick(gv, gs) ==
    LET g1 == update_player_position(gv)
        g2 == update_viewport_position(g1, gs)
        up == MapPlace_update_player(g2.map_place, g2.player)
        player == up[2]
        g3 == [g2 EXCEPT !.map_place = MapPlace_draw(up[1]),
                         !.player = player,
                         !.control = Control_clear(g2.control),
                         !.message = DebugMessage(player.position)]
    IN IF player.oxygen <= 0
       THEN [g3 EXCEPT !.message = DiedMessage, !.show_message = TRUE, !.game_status = "Died"]
       ELSE g3

\* ------------------------------------------------------------------------
\* adventurers_quest: QuestStatus, QuestProgress
\* ------------------------------------------------------------------------

Pending(n) == <<"Pending", n>>

Completed == <<"Completed", 0>>

QuestProgress_new(steps) == [steps |-> steps, status |-> Pending(1)]

\* next that compares the step with <= instead of <
QuestProgress_next_off_by_one(progress) ==
    IF progress.status[1] = "Pending"
    THEN <<IF progress.status[2] <= progress.steps
           THEN [progress EXCEPT !.status = Pending(progress.status[2] + 1)]
           ELSE [progress EXCEPT !.status = Completed],
           TRUE>>
    ELSE <<progress, FALSE>>

\* QuestProgress::next; the result is the pair <<progress, returned value>>.
QuestProgress_next(progress) ==
    IF progress.status[1] = "Pending"
    THEN <<IF progress.status[2] < progress.steps
           THEN [progress EXCEPT !.status = Pending(progress.status[2] + 1)]
           ELSE [progress EXCEPT !.status = Completed],
           TRUE>>
    ELSE <<progress, FALSE>>

QuestProgress_is_completed(progress) == progress.status = Completed

QuestProgress_reset(progress) == [progress EXCEPT !.status = Pending(1)]

\* ------------------------------------------------------------------------
\* Event, StepQuest, PickupQuest, CompoundQuest
\* ------------------------------------------------------------------------

\* Event::MoveTo(_, b): the quests never read the position, so the event
\* carries the Option<BackgroundVariant> only ("None" when absent).
MoveTo(b) == <<"MoveTo", b>>

Pickup(item) == <<"Pickup", item>>

Die(reason) == <<"Die", reason>>

StepQuest_new(background, steps) ==
    [type |-> "StepQuest", background |-> background, progress |-> QuestProgress_new(steps)]

PickupQuest_new(item, number) ==
    [type |-> "PickupQuest", item |-> item, progress |-> QuestProgress_new(number)]

CompoundQuest_new(sub_quests) ==
    [type |-> "CompoundQuest", sub_quests |-> sub_quests,
     progress |-> QuestProgress_new(Len(sub_quests))]

\* is_completed is the same in the three impls
is_completed(q) == QuestProgress_is_completed(q.progress)

\* A quest whose method panicked (index out of bounds): the call never
\* returned and nothing is called on the quest afterwards.
Panicked(q) == [q EXCEPT !.type = "Panicked"]

status(q) == q.progress.status

\* StepQuest::update without the early return of a completed quest
StepQuest_update_when_completed(q, event) ==
    IF event[1] = "MoveTo"
    THEN IF event[2] = q.background
         THEN [q EXCEPT !.progress = QuestProgress_next(q.progress)[1]]
         ELSE [q EXCEPT !.progress = QuestProgress_reset(q.progress)]
    ELSE q

\* StepQuest::update that keeps the progress on another background
StepQuest_update_no_reset(q, event) ==
    IF is_completed(q) THEN q
    ELSE IF event[1] = "MoveTo"
         THEN IF event[2] = q.background
              THEN [q EXCEPT !.progress = QuestProgress_next(q.progress)[1]]
              ELSE q
         ELSE q

StepQuest_update(q, event) ==
    IF is_completed(q) THEN q
    ELSE IF event[1] = "MoveTo"
         THEN IF event[2] = q.background
              THEN [q EXCEPT !.progress = QuestProgress_next(q.progress)[1]]
              ELSE [q EXCEPT !.progress = QuestProgress_reset(q.progress)]
         ELSE q

\* PickupQuest::update that counts the pickup of any item
PickupQuest_update_any_item(q, event) ==
    IF is_completed(q) THEN q
    ELSE IF event[1] = "Pickup"
         THEN [q EXCEPT !.progress = QuestProgress_next(q.progress)[1]]
         ELSE q

PickupQuest_update(q, event) ==
    IF is_completed(q) THEN q
    ELSE IF event[1] = "Pickup"
         THEN IF event[2] = q.item
              THEN [q EXCEPT !.progress = QuestProgress_next(q.progress)[1]]
              ELSE q
         ELSE q

RECURSIVE update(_, _)

\* CompoundQuest::update that also hands the event to the sub-quest that
\* becomes active
CompoundQuest_update_falls_through(q, event) ==
    IF q.progress.status[1] = "Pending"
    THEN LET current == q.progress.status[2]
             sub_quest == update(q.sub_quests[current], event)
             q1 == [q EXCEPT !.sub_quests[current] = sub_quest]
         IN IF is_completed(sub_quest)
            THEN IF current < Len(q.sub_quests)
                 THEN [q1 EXCEPT !.progress = QuestProgress_next(q.progress)[1],
                                 !.sub_quests[current + 1] = update(q.sub_quests[current + 1], event)]
                 ELSE [q1 EXCEPT !.progress = QuestProgress_next(q.progress)[1]]
            ELSE q1
    ELSE q

\* CompoundQuest::update that calls progress.next() whether or not the
\* sub-quest is completed
CompoundQuest_update_always_advances(q, event) ==
    IF q.progress.status[1] = "Pending"
    THEN LET current == q.progress.status[2]
             sub_quest == update(q.sub_quests[current], event)
         IN [q EXCEPT !.sub_quests[current] = sub_quest,
                      !.progress = QuestProgress_next(q.progress)[1]]
    ELSE q

\* CompoundQuest::update.  self.sub_quests[current - 1] panics when current
\* is larger than the length of the list; the quest is then Panicked(q).
CompoundQuest_update(q, event) ==
    IF q.progress.status[1] = "Pending"
    THEN LET current == q.progress.status[2]
         IN IF current > Len(q.sub_quests) THEN Panicked(q)
            ELSE LET sub_quest == update(q.sub_quests[current], event)
                     q1 == [q EXCEPT !.sub_quests[current] = sub_quest]
                 IN IF is_completed(sub_quest)
                    THEN [q1 EXCEPT !.progress = QuestProgress_next(q.progress)[1]]
                    ELSE q1
    ELSE q

\* dyn Quest<Event>::update
update(q, event) ==
    CASE q.type = "StepQuest" -> StepQuest_update(q, event)
      [] q.type = "PickupQuest" -> PickupQuest_update(q, event)
      [] q.type = "CompoundQuest" -> CompoundQuest_update(q, event)
      [] q.type = "Panicked" -> q

\* Reset::reset is progress.reset() in the three impls
reset(q) == [q EXCEPT !.progress = QuestProgress_reset(q.progress)]

\* ------------------------------------------------------------------------
\* MapLayers (map.rs) and the Player of player.rs
\* ------------------------------------------------------------------------

PLAYER_ICON == "player"

FLAG == "flag"

\* Into<MapObjectVariant> for &RawMapObject: Object and Sign are foregrounds,
\* every other object is a background.
IsForeground(map_object) == map_object[1] \in {"Object", "Sign"}

MapLayers_default ==
    [player |-> Position_default,
     foregrounds |-> <<>>,
     backgrounds |-> <<>>,
     should_draw |-> <<>>,
     waters |-> {},
     barriers |-> {}]

\* impl From<&RawGameMap> for MapLayers with `if b.is_barrier() || b.is_water()`
\* before barriers.insert
MapLayers_from_water_blocks(raw_game_map) ==
    LET fg == {p \in DOMAIN raw_game_map : IsForeground(raw_game_map[p])}
        bg == DOMAIN raw_game_map \ fg
    IN [MapLayers_default EXCEPT
            !.foregrounds = [p \in fg |-> raw_game_map[p]],
            !.backgrounds = [p \in bg |-> raw_game_map[p]],
            !.barriers = {p \in bg : BackgroundVariant_is_barrier(raw_game_map[p])
                                     \/ BackgroundVariant_is_water(raw_game_map[p])},
            !.waters = {p \in bg : BackgroundVariant_is_water(raw_game_map[p])},
            !.should_draw = SeqOfSet(DOMAIN raw_game_map)]

\* impl From<&RawGameMap> for MapLayers: the raw map is a HashMap, so the loop
\* sees every position once.
MapLayers_from(raw_game_map) ==
    LET fg == {p \in DOMAIN raw_game_map : IsForeground(raw_game_map[p])}
        bg == DOMAIN raw_game_map \ fg
    IN [MapLayers_default EXCEPT
            !.foregrounds = [p \in fg |-> raw_game_map[p]],
            !.backgrounds = [p \in bg |-> raw_game_map[p]],
            !.barriers = {p \in bg : BackgroundVariant_is_barrier(raw_game_map[p])},
            !.waters = {p \in bg : BackgroundVariant_is_water(raw_game_map[p])},
            !.should_draw = SeqOfSet(DOMAIN raw_game_map)]

\* MapLayers::get: the cell <<glyph, style>> of a position
MapLayers_get(ml, position) ==
    LET c0 == IF position \in DOMAIN ml.foregrounds
              THEN IF ml.foregrounds[position][1] = "Object"
                   THEN ml.foregrounds[position][2] ELSE FLAG
              ELSE " "
        style == IF position \in DOMAIN ml.backgrounds
                 THEN ml.backgrounds[position][1] ELSE "None"
    IN <<IF ml.player = position THEN PLAYER_ICON ELSE c0, style>>

\* MapLayers::update_player without the push of the previous position
MapLayers_update_player_forgets_previous(ml, player) ==
    IF ~player.update_draw THEN <<ml, player>>
    ELSE <<[ml EXCEPT !.player = player.position,
                      !.should_draw = Append(ml.should_draw, player.position)],
           [player EXCEPT !.previous_position = SomePosition(player.position),
                          !.update_draw = FALSE]>>

\* MapLayers::update_player; the result is the pair <<map_layers, player>>.
MapLayers_update_player(ml, player) ==
    IF ~player.update_draw THEN <<ml, player>>
    ELSE LET prev == player.previous_position
             d1 == IF prev # NoPosition THEN Append(ml.should_draw, <<prev[2], prev[3]>>)
                   ELSE ml.should_draw
         IN <<[ml EXCEPT !.player = player.position,
                         !.should_draw = Append(d1, player.position)],
              [player EXCEPT !.previous_position = SomePosition(player.position),
                             !.update_draw = FALSE]>>

MapLayers_is_barrier(ml, position) == position \in ml.barriers

MapLayers_is_water(ml, position) == position \in ml.waters

\* get_style_characters that reads should_draw without draining it
MapLayers_get_style_characters_no_drain(ml) ==
    <<ml, [i \in 1..Len(ml.should_draw) |->
              <<ml.should_draw[i], MapLayers_get(ml, ml.should_draw[i])>>]>>

\* MapLayers::get_style_characters; the result is the pair of the layers
\* after the call and the returned Vec<(Position, cell)>.
MapLayers_get_style_characters(ml) ==
    LET positions == ml.should_draw
        drained == [ml EXCEPT !.should_draw = <<>>]
    IN <<drained, [i \in 1..Len(positions) |->
                      <<positions[i], MapLayers_get(drained, positions[i])>>]>>

\* remove_foreground that marks the position and keeps the entry
MapLayers_remove_foreground_keeps_entry(ml, position) ==
    [ml EXCEPT !.should_draw = Append(ml.should_draw, position)]

MapLayers_remove_foreground(ml, position) ==
    [ml EXCEPT !.foregrounds = [p \in DOMAIN ml.foregrounds \ {position} |-> ml.foregrounds[p]],
               !.should_draw = Append(ml.should_draw, position)]

\* Player::interact_background of player.rs
Player_interact_background(player, map) ==
    IF MapLayers_is_water(map, player.position)
    THEN [player EXCEPT !.oxygen = player.oxygen - 1]
    ELSE [player EXCEPT !.oxygen = PLAYER_INIT_OXYGEN]

\* ------------------------------------------------------------------------
\* The game as a state machine: run_game calls on_start once, then on_event
\* for every key press and on_tick for every tick.
\* ------------------------------------------------------------------------

\* History of the last handler call: op is the handler, key the key of an
\* on_event, outcome what the call did ("idle", "rejected" or "moved" for a
\* tick, "restart" for the restart key), oxygen_before the oxygen before a
\* tick, and pressed whether an arrow key arrived since the previous tick
\* (for a tick: before that tick), viewport_before the viewport position
\* before a tick, water_moves the number of moves onto water that the run has
\* seen since its start or its last move onto another cell.
\* Largest count of successive moves onto water that is kept
MaxWaterMoves == 12

TickOutcome(gv) ==
    IF is_origin(Position_from(gv.control)) THEN "idle"
    ELSE IF on_tick(gv, game_static).player.position = gv.player.position THEN "rejected"
    ELSE "moved"

ArrowKeys == {"Left", "Right", "Up", "Down"}

\* The count of successive moves onto water after the tick of gv: a move onto
\* water adds one (the count stops at MaxWaterMoves), a move onto another
\* cell makes it zero, a tick without a move keeps it.
WaterMoves(n, gv) ==
    IF TickOutcome(gv) = "moved"
    THEN IF MapPlace_is_water(gv.map_place, Position_add(gv.player.position, Position_from(gv.control)))
         THEN IF n < MaxWaterMoves THEN n + 1 ELSE n
         ELSE 0
    ELSE n

NoHandler ==
    [op |-> "new", key |-> "", outcome |-> "", oxygen_before |-> 0, pressed |-> FALSE,
     viewport_before |-> <<0, 0>>, water_moves |-> 0]

\* No quest object: main.rs builds none.
NoQuest == [type |-> "None"]

NoCall == [op |-> "new", event |-> <<"", "">>, ret |-> FALSE]

\* No game over a MapLayers: main.rs builds none.  op is the last step,
\* status the GameStatus, events and message what the last tick emitted and
\* showed, drawn the cells the last drain of the dirty list returned.
\* The terminal's screen before anything was written to it
NoScreen == [p \in {} |-> <<" ", "None">>]

NoPlay == [op |-> "new", status |-> "Running", events |-> <<>>, message |-> "", drawn |-> <<>>,
           screen |-> NoScreen]

Init ==
    /\ terminal \in ScreenSizes
    /\ game_var = MyGame_new(RawGameMap).game_var
    /\ game_static = MyGame_new(RawGameMap).game_static
    /\ last = NoHandler
    /\ quest = NoQuest
    /\ log = <<>>
    /\ qlast = NoCall
    /\ twin = NoQuest
    /\ map_layers = MapLayers_default
    /\ hero = Player_default
    /\ play = NoPlay

OnStart ==
    /\ last.op = "new"
    /\ game_var' = on_start(game_var, game_static, terminal)[1]
    /\ game_static' = on_start(game_var, game_static, terminal)[2]
    /\ last' = [NoHandler EXCEPT !.op = "start"]
    /\ UNCHANGED <<terminal, quest_vars, play_vars>>

OnEvent(key_code) ==
    /\ last.op # "new"
    /\ game_var' = on_event(game_var, game_static, terminal, key_code)[1]
    /\ game_static' = on_event(game_var, game_static, terminal, key_code)[2]
    /\ last' = [op |-> "event",
                key |-> key_code,
                outcome |-> IF game_var.game_status = "Died" /\ key_code = "Enter"
                            THEN "restart" ELSE "",
                oxygen_before |-> 0,
                pressed |-> (last.op = "event" /\ last.pressed) \/ key_code \in ArrowKeys,
                viewport_before |-> <<0, 0>>,
                water_moves |-> IF game_var.game_status = "Died" /\ key_code = "Enter"
                                THEN 0 ELSE last.water_moves]
    /\ UNCHANGED <<terminal, quest_vars, play_vars>>

OnTick ==
    /\ last.op # "new"
    /\ game_var' = on_tick(game_var, game_static)
    /\ last' = [op |-> "tick",
                key |-> "",
                outcome |-> TickOutcome(game_var),
                oxygen_before |-> game_var.player.oxygen,
                pressed |-> last.op = "event" /\ last.pressed,
                viewport_before |-> game_var.viewport_position,
                water_moves |-> WaterMoves(last.water_moves, game_var)]
    /\ UNCHANGED <<game_static, terminal, quest_vars, play_vars>>

Next ==
    \/ OnStart
    \/ \E key_code \in KeyCodes : OnEvent(key_code)
    \/ OnTick

Spec == Init /\ [][Next]_vars

\* ------------------------------------------------------------------------
\* Properties of the game (specification Spec)
\* ------------------------------------------------------------------------

\* The cell the player tries to enter in the next tick
Candidate == Position_add(game_var.player.position, Position_from(game_var.control))

IsTick == last'.op = "tick"

OnWater(gv) == MapPlace_is_water(gv.map_place, gv.player.position)

\* C1: a tick whose candidate cell (position + input delta) is a barrier
\* leaves the player's position, oxygen, redraw flag and bag unchanged, in
\* every tick in which it happens and on whatever tile the player stands.
\* (No code of the game produces an event, so none is produced here either.)
C1_BarrierRejectionChangesNothing ==
    [][(IsTick /\ MapPlace_is_barrier(game_var.map_place, Candidate))
        => /\ game_var'.player.position = game_var.player.position
           /\ game_var'.player.oxygen = game_var.player.oxygen
           /\ game_var'.player.update_draw = game_var.player.update_draw
           /\ game_var'.player.bag = game_var.player.bag
           /\ game_var'.game_status = game_var.game_status]_vars

\* C1 witness: a tick has just rejected a move into a barrier while the
\* player stands on water with some oxygen already used up.
C1_Witness ==
    /\ last.op = "tick" /\ last.outcome = "rejected"
    /\ OnWater(game_var)
    /\ game_var.player.oxygen < PLAYER_INIT_OXYGEN
    /\ game_var.player.oxygen = last.oxygen_before

\* C2 as stated: in every tick at whose end the player is on water while the
\* game is Running, oxygen has decreased by exactly 1.
C2_OxygenDropsEveryTickOnWater ==
    [][(IsTick /\ game_var'.game_status = "Running" /\ OnWater(game_var'))
        => game_var'.player.oxygen = game_var.player.oxygen - 1]_vars

\* C2 amended: oxygen decreases by exactly 1 in every tick in which the
\* player moves onto a water tile, and a tick in which the player does not
\* move (no direction, cancelling directions, or a move rejected by a
\* barrier) leaves oxygen unchanged, also when the player stands on water.
C2_OxygenDropsPerMoveOntoWater ==
    [][IsTick
        => IF game_var'.player.position # game_var.player.position
           THEN OnWater(game_var') => game_var'.player.oxygen = game_var.player.oxygen - 1
           ELSE game_var'.player.oxygen = game_var.player.oxygen]_vars

\* C2 witness: a tick without a move has ended with the player on water, the
\* game Running and the oxygen as it was (below 10, so water was entered).
C2_Witness ==
    /\ last.op = "tick" /\ last.outcome = "idle"
    /\ game_var.game_status = "Running"
    /\ OnWater(game_var)
    /\ game_var.player.oxygen = last.oxygen_before
    /\ game_var.player.oxygen < PLAYER_INIT_OXYGEN

\* C3: whenever a tick moves the player onto a cell that is not water, the
\* oxygen is exactly 10 at the end of that tick.
C3_RefillOffWater ==
    [][(IsTick /\ game_var'.player.position # game_var.player.position /\ ~OnWater(game_var'))
        => game_var'.player.oxygen = PLAYER_INIT_OXYGEN]_vars

\* C3 witness: the player has just moved from water, with at most 8 oxygen
\* left, onto the cell of the raw map that holds an object, and has 10.
C3_Witness ==
    /\ last.op = "tick" /\ last.outcome = "moved"
    /\ last.oxygen_before <= 8
    /\ game_var.player.position = <<4, 2>>
    /\ game_var.player.oxygen = PLAYER_INIT_OXYGEN

\* C4: the status is Died at the end of the tick in which oxygen becomes
\* <= 0, and from then on, as long as the status stays Died, no key event
\* and no tick changes the player's position, oxygen or bag.
C4_DeathSameTickAndFrozen ==
    /\ [](game_var.player.oxygen <= 0 => game_var.game_status = "Died")
    /\ [][(game_var.game_status = "Died" /\ game_var'.game_status = "Died")
           => /\ game_var'.player.position = game_var.player.position
              /\ game_var'.player.oxygen = game_var.player.oxygen
              /\ game_var'.player.bag = game_var.player.bag]_vars

\* C4 witness: a tick has run while the status was already Died and after an
\* arrow key was pressed, and the status is still Died.
C4_Witness ==
    /\ game_var.game_status = "Died"
    /\ last.op = "tick" /\ last.pressed
    /\ last.oxygen_before <= 0

\* C5: while Died a key event other than Enter changes nothing (no direction
\* is set, no display flag toggled), the status leaves Died only by the Enter
\* key event and then becomes Running, and in Running Enter changes nothing.
C5_DiedIgnoresKeys ==
    [][/\ (game_var.game_status = "Died" /\ last'.op = "event" /\ last'.key # "Enter")
            => game_var' = game_var
       /\ (game_var.game_status = "Died" /\ game_var'.game_status # "Died")
            => (last'.op = "event" /\ last'.key = "Enter" /\ game_var'.game_status = "Running")
       /\ (game_var.game_status = "Running" /\ last'.op = "event" /\ last'.key = "Enter")
            => game_var' = game_var]_vars

\* C5 witness: the Left key has just been pressed while Died.
C5_Witness ==
    /\ game_var.game_status = "Died"
    /\ last.op = "event" /\ last.key = "Left"

\* The state on_start leaves when the game is first started
FirstStart == on_start(MyGame_new(RawGameMap).game_var, MyGame_new(RawGameMap).game_static, terminal)

\* C6: right after a restart the status is Running, the player is at the
\* start position (3,3) with oxygen 10 and an empty bag, the viewport is at
\* the origin, the control buffer is empty, the message flag is off, the map
\* is the one derived from the raw map (with the player on the start
\* position), the raw map is the one loaded, and the whole state equals the
\* state right after the first start.
C6_RestartRestoresStart ==
    (last.op = "event" /\ last.outcome = "restart")
    => /\ game_var.game_status = "Running"
       /\ game_var.player.position = <<3, 3>>
       /\ game_var.player.oxygen = PLAYER_INIT_OXYGEN
       /\ game_var.player.bag = <<>>
       /\ game_var.viewport_position = <<0, 0>>
       /\ game_var.control = [up |-> FALSE, down |-> FALSE, left |-> FALSE, right |-> FALSE]
       /\ game_var.show_message = FALSE
       /\ game_var.map_place.map
            = [MapPlace_from(RawGameMap).map EXCEPT ![<<3, 3>>].player = TRUE]
       /\ game_static.raw_game_map = RawGameMap
       /\ game_var = FirstStart[1]
       /\ game_static = FirstStart[2]

\* C6 witness: the restart key has just been handled after a death.
C6_Witness ==
    /\ last.op = "event" /\ last.outcome = "restart"
    /\ game_var.game_status = "Running"

\* The four margins of update_viewport_position for the player of gv and
\* the viewport position vp
Margins(gv, gs, vp) ==
    [left |-> gv.player.position[1] - vp[1],
     top |-> gv.player.position[2] - vp[2],
     right |-> vp[1] + gs.screen_size[1] - 2 - gv.player.position[1],
     bottom |-> vp[2] + gs.screen_size[2][1] + gs.screen_size[2][2] - 3 - gv.player.position[2]]

AllMarginsSmall(m) ==
    /\ m.left < VIEW_PADDING /\ m.top < VIEW_PADDING
    /\ m.right < VIEW_PADDING /\ m.bottom < VIEW_PADDING

Stationary == game_var'.player.position = game_var.player.position

\* A coordinate moves by one toward the only small margin of its axis, and
\* not at all when both margins of the axis are small or neither is.
AxisStep(low, high) ==
    IF low < VIEW_PADDING /\ high >= VIEW_PADDING THEN 0 - 1
    ELSE IF high < VIEW_PADDING /\ low >= VIEW_PADDING THEN 1
    ELSE 0

\* C12 as the spec states it: a tick with a stationary player and all four
\* margins below the padding threshold moves the viewport by exactly one cell
\* on each axis.
C12_AllSmallMarginsMoveViewport ==
    [][(IsTick /\ Stationary
        /\ AllMarginsSmall(Margins(game_var, game_static, game_var.viewport_position)))
        => /\ game_var'.viewport_position[1] - game_var.viewport_position[1] \in {0 - 1, 1}
           /\ game_var'.viewport_position[2] - game_var.viewport_position[2] \in {0 - 1, 1}]_vars

\* C12 amended: in a tick with a stationary player each viewport coordinate
\* moves by exactly one cell toward the side whose margin is below the
\* threshold when the opposite margin is not, and stays when both margins of
\* the axis are below the threshold or none is; a small margin never grows
\* past the threshold in one tick.  With all four margins below the threshold
\* the viewport does not move.
C12_ViewportStepStationary ==
    [][(IsTick /\ Stationary)
        => LET m == Margins(game_var, game_static, game_var.viewport_position)
               n == Margins(game_var', game_static', game_var'.viewport_position)
           IN /\ game_var'.viewport_position[1]
                    = game_var.viewport_position[1] + AxisStep(m.left, m.right)
              /\ game_var'.viewport_position[2]
                    = game_var.viewport_position[2] + AxisStep(m.top, m.bottom)
              /\ AllMarginsSmall(m) => game_var'.viewport_position = game_var.viewport_position
              /\ m.left < VIEW_PADDING => n.left <= VIEW_PADDING
              /\ m.top < VIEW_PADDING => n.top <= VIEW_PADDING
              /\ m.right < VIEW_PADDING => n.right <= VIEW_PADDING
              /\ m.bottom < VIEW_PADDING => n.bottom <= VIEW_PADDING]_vars

\* C12 witness: an idle tick has just run with all four margins below the
\* threshold, and the viewport is where it was.
C12_Witness ==
    /\ last.op = "tick" /\ last.outcome = "idle"
    /\ AllMarginsSmall(Margins(game_var, game_static, last.viewport_before))
    /\ game_var.viewport_position = last.viewport_before

\* C13: in every tick the four margins are those of the viewport at the start
\* of the tick (and of the player after the tick's move); vx goes down by one
\* if left < 2 and up by one if right < 2, vy goes down by one if top < 2 and
\* up by one if bottom < 2, a margin >= 2 adds nothing, and so each
\* coordinate changes by at most one cell.
C13_ViewportNudges ==
    [][IsTick
        => LET m == Margins(game_var', game_static, game_var.viewport_position)
               dx == game_var'.viewport_position[1] - game_var.viewport_position[1]
               dy == game_var'.viewport_position[2] - game_var.viewport_position[2]
           IN /\ dx = (IF m.right < VIEW_PADDING THEN 1 ELSE 0)
                        - (IF m.left < VIEW_PADDING THEN 1 ELSE 0)
              /\ dy = (IF m.bottom < VIEW_PADDING THEN 1 ELSE 0)
                        - (IF m.top < VIEW_PADDING THEN 1 ELSE 0)
              /\ dx \in {0 - 1, 0, 1} /\ dy \in {0 - 1, 0, 1}]_vars

\* C13 witness: a tick has just moved vx down by one with the left margin
\* below 2 and the right margin exactly 2 at its start.
C13_Witness ==
    /\ last.op = "tick" /\ last.outcome = "moved"
    /\ Margins(game_var, game_static, last.viewport_before).left < VIEW_PADDING
    /\ Margins(game_var, game_static, last.viewport_before).right = VIEW_PADDING
    /\ game_var.viewport_position[1] = last.viewport_before[1] - 1

\* The positions around the map that the raw map does not list
Unlisted == ((0..6) \X (0..6)) \ DOMAIN RawGameMap

\* No position that the raw map does not list is a barrier or water.
UnlistedNeverBarrierNorWater ==
    \A p \in Unlisted :
        /\ ~MapPlace_is_barrier(game_var.map_place, p)
        /\ ~MapPlace_is_water(game_var.map_place, p)

\* A tick with a direction whose candidate cell is not listed in the raw map
\* moves the player there and leaves them with oxygen 10.
UnlistedIsWalkable ==
    [][(IsTick /\ ~is_origin(Position_from(game_var.control)) /\ Candidate \in Unlisted)
        => /\ game_var'.player.position = Candidate
           /\ game_var'.player.oxygen = PLAYER_INIT_OXYGEN]_vars

\* C14: in every reachable state no position that the raw map does not list
\* is a barrier or water, also once the player has stood on it; so every
\* tick toward such a position moves the player onto it, with oxygen 10.
C14_UnlistedPositions == []UnlistedNeverBarrierNorWater /\ UnlistedIsWalkable

\* C14 witness: the player has just moved onto an unlisted position on which
\* they stood before (its Place exists, without a background), coming from
\* another one.
C14_Witness ==
    /\ last.op = "tick" /\ last.outcome = "moved"
    /\ game_var.player.position = <<4, 3>>
    /\ <<4, 4>> \in DOMAIN game_var.map_place.map
    /\ game_var.map_place.map[<<4, 3>>].background = NoBackground
    /\ game_var.player.oxygen = PLAYER_INIT_OXYGEN

\* After every tick the control buffer is empty.
ControlEmptyAfterTick ==
    last.op = "tick" => game_var.control = Control_default

\* A tick moves the player by at most one cell per axis however many keys
\* were pressed, and a tick before which no direction key arrived since the
\* previous tick does not move the player.
KeysAffectOnlyNextTick ==
    [][IsTick
        => /\ game_var'.player.position[1] - game_var.player.position[1] \in {0 - 1, 0, 1}
           /\ game_var'.player.position[2] - game_var.player.position[2] \in {0 - 1, 0, 1}
           /\ ~(last.op = "event" /\ last.pressed)
                => game_var'.player.position = game_var.player.position
           /\ game_var'.control = Control_default]_vars

\* C17: the control buffer is empty at the end of every tick; the player moves
\* by at most one cell per axis per tick, and only in a tick before which a
\* direction key arrived since the previous tick.
C17_ControlBuffer == []ControlEmptyAfterTick /\ KeysAffectOnlyNextTick

\* C17 witness: a tick has just run without any key since the previous tick,
\* which had moved the player; the player is where that tick put them.
C17_Witness ==
    /\ last.op = "tick" /\ ~last.pressed /\ last.outcome = "idle"
    /\ game_var.control = Control_default
    /\ game_var.player.position = <<4, 4>>
    /\ game_var.game_status = "Running"

\* The input delta is the zero vector: on each axis no key or both keys
ZeroDelta(control) == control.left = control.right /\ control.up = control.down

\* C18: a tick whose input delta is zero (no direction key, or opposite keys
\* together) changes neither the player's position nor oxygen nor the redraw
\* flag, on whatever tile the player stands.
C18_ZeroDeltaChangesNothing ==
    [][(IsTick /\ ZeroDelta(game_var.control))
        => /\ game_var'.player.position = game_var.player.position
           /\ game_var'.player.oxygen = game_var.player.oxygen
           /\ game_var'.player.update_draw = game_var.player.update_draw]_vars

\* C18 witness: a tick has just run with opposite keys pressed while the
\* player stands on water with oxygen used up, and the oxygen is what it was.
C18_Witness ==
    /\ last.op = "tick" /\ last.pressed /\ last.outcome = "idle"
    /\ OnWater(game_var)
    /\ game_var.player.oxygen < PLAYER_INIT_OXYGEN
    /\ game_var.player.oxygen = last.oxygen_before
    /\ game_var.game_status = "Running"

\* C23: after any key events, ticks and restarts, at the end of every tick
\* (and in every other state) 0 <= oxygen <= 10, and the status is Died if
\* and only if oxygen <= 0; oxygen is never negative.
C23_OxygenRange ==
    /\ 0 <= game_var.player.oxygen
    /\ game_var.player.oxygen <= PLAYER_INIT_OXYGEN
    /\ game_var.game_status = "Died" <=> game_var.player.oxygen <= 0

\* C23 witness: a tick has just moved the player onto water with oxygen 1,
\* and has ended with oxygen 0 and the status Died.
C23_Witness ==
    /\ last.op = "tick" /\ last.outcome = "moved"
    /\ last.oxygen_before = 1
    /\ game_var.player.oxygen = 0
    /\ game_var.game_status = "Died"

\* C24: within one run the status is Died exactly from the tick of the 10th
\* of ten successive moves onto water: the status becomes Died only in a tick
\* that moves the player, and it is Died if and only if the count of
\* successive moves onto water stands at 10, where ticks without a move and
\* ticks with a rejected move keep the count and a move onto another cell
\* makes it zero.
C24_DiesAtTenthWaterMove ==
    /\ [](/\ last.water_moves <= PLAYER_INIT_OXYGEN
          /\ game_var.game_status = "Died" <=> last.water_moves = PLAYER_INIT_OXYGEN)
    /\ [][(game_var.game_status = "Running" /\ game_var'.game_status = "Died")
            => /\ last'.op = "tick" /\ last'.outcome = "moved"
               /\ last.water_moves = PLAYER_INIT_OXYGEN - 1
               /\ last'.water_moves = PLAYER_INIT_OXYGEN]_vars

\* C24 witness: the tenth successive move onto water has just been made,
\* onto the water cell in the corner, and the status is Died.
C24_Witness ==
    /\ last.op = "tick" /\ last.outcome = "moved"
    /\ last.water_moves = PLAYER_INIT_OXYGEN
    /\ game_var.game_status = "Died"
    /\ game_var.player.position = <<2, 2>>

\* The screen on which the start position (3, 3) has all four margins >= 2
\* with the viewport at the origin
LargeScreen(screen_size) ==
    screen_size[1] >= 7 /\ screen_size[2][1] + screen_size[2][2] >= 8

\* C25: on a screen with width >= 7 and game height + message height >= 8,
\* at the end of every tick, after any moves (diagonal ones too) and
\* restarts, all four margins between the player and the viewport border are
\* >= 2.
C25_MarginsKept ==
    (last.op = "tick" /\ LargeScreen(game_static.screen_size))
    => LET m == Margins(game_var, game_static, game_var.viewport_position)
       IN /\ m.left >= VIEW_PADDING /\ m.top >= VIEW_PADDING
          /\ m.right >= VIEW_PADDING /\ m.bottom >= VIEW_PADDING

\* C25 witness: on the large screen a diagonal move has just made the
\* viewport follow on both axes.
C25_Witness ==
    /\ last.op = "tick" /\ last.outcome = "moved"
    /\ LargeScreen(game_static.screen_size)
    /\ game_var.viewport_position[1] # last.viewport_before[1]
    /\ game_var.viewport_position[2] # last.viewport_before[2]
    /\ game_var.player.position = <<4, 4>>

\* ------------------------------------------------------------------------
\* The quests as a state machine: one QuestProgress or quest is built and
\* then given any sequence of calls (next and reset on a QuestProgress;
\* update and reset on a quest).
\* ------------------------------------------------------------------------

\* Largest number of steps of a QuestProgress, StepQuest or PickupQuest built
MaxSteps == 3

\* Largest number of steps of a sub-quest of a CompoundQuest built
MaxSubSteps == 2

\* Largest number of sub-quests of a CompoundQuest built
MaxSubQuests == 2

\* Largest number of calls logged before the next reset
MaxLog == 6

Events == {MoveTo("Water"), MoveTo("Sand"), MoveTo("None"), Pickup("x"), Pickup("y"), Die("drown")}

LeafQuests(n) ==
    {StepQuest_new("Water", k) : k \in 1..n} \cup {PickupQuest_new("x", k) : k \in 1..n}

RECURSIVE SeqsUpTo(_, _)
SeqsUpTo(S, n) ==
    IF n = 0 THEN {<<>>}
    ELSE LET shorter == SeqsUpTo(S, n - 1)
         IN shorter \cup {Append(q, x) : q \in shorter, x \in S}

CompoundQuests ==
    {CompoundQuest_new(sub_quests) : sub_quests \in SeqsUpTo(LeafQuests(MaxSubSteps), MaxSubQuests) \ {<<>>}}

Progresses == {[type |-> "QuestProgress", progress |-> QuestProgress_new(steps)] : steps \in 1..MaxSteps}

NextCall == <<"next", "">>

\* The QuestProgress or quest that the constructors build from the
\* parameters q was built from
RECURSIVE Rebuilt(_)
Rebuilt(q) ==
    CASE q.type = "QuestProgress" -> [type |-> "QuestProgress", progress |-> QuestProgress_new(q.progress.steps)]
      [] q.type = "StepQuest" -> StepQuest_new(q.background, q.progress.steps)
      [] q.type = "PickupQuest" -> PickupQuest_new(q.item, q.progress.steps)
      [] q.type = "CompoundQuest" ->
            CompoundQuest_new([i \in 1..Len(q.sub_quests) |-> Rebuilt(q.sub_quests[i])])

QuestInit ==
    /\ terminal = <<7, <<5, 3>>>>
    /\ game_var = MyGame_new(RawGameMap).game_var
    /\ game_static = MyGame_new(RawGameMap).game_static
    /\ last = NoHandler
    /\ quest \in Progresses \cup LeafQuests(MaxSteps) \cup CompoundQuests
    /\ log = <<>>
    /\ qlast = NoCall
    /\ twin = quest
    /\ map_layers = MapLayers_default
    /\ hero = Player_default
    /\ play = NoPlay

\* progress.next() on a QuestProgress
CallNext ==
    /\ quest.type = "QuestProgress"
    /\ Len(log) < MaxLog
    /\ quest' = [quest EXCEPT !.progress = QuestProgress_next(quest.progress)[1]]
    /\ log' = Append(log, NextCall)
    /\ qlast' = [op |-> "next", event |-> NextCall, ret |-> QuestProgress_next(quest.progress)[2]]
    /\ twin' = [twin EXCEPT !.progress = QuestProgress_next(twin.progress)[1]]
    /\ UNCHANGED <<game_vars, play_vars>>

\* quest.update(event) on a StepQuest or PickupQuest
CallUpdate(event) ==
    /\ quest.type \in {"StepQuest", "PickupQuest"}
    /\ Len(log) < MaxLog
    /\ quest' = update(quest, event)
    /\ log' = Append(log, event)
    /\ qlast' = [op |-> "update", event |-> event, ret |-> FALSE]
    /\ twin' = update(twin, event)
    /\ UNCHANGED <<game_vars, play_vars>>

\* quest.update(event) on a CompoundQuest
CallCompoundUpdate(event) ==
    /\ quest.type = "CompoundQuest"
    /\ quest' = update(quest, event)
    /\ qlast' = [op |-> "update", event |-> event, ret |-> FALSE]
    /\ twin' = update(twin, event)
    /\ UNCHANGED <<log, game_vars, play_vars>>

\* reset() on a QuestProgress or a quest
CallReset ==
    /\ quest.type # "Panicked"
    /\ quest' = reset(quest)
    /\ log' = <<>>
    /\ qlast' = [op |-> "reset", event |-> <<"reset", "">>, ret |-> FALSE]
    /\ twin' = Rebuilt(quest)
    /\ UNCHANGED <<game_vars, play_vars>>

QuestNext ==
    \/ CallNext
    \/ \E event \in Events : CallUpdate(event)
    \/ \E event \in Events : CallCompoundUpdate(event)
    \/ CallReset

QuestSpec == QuestInit /\ [][QuestNext]_vars

\* The same calls on every QuestProgress and quest the constructors accept:
\* QuestProgress::new takes any usize, 0 too, and CompoundQuest::new any Vec,
\* the empty one too.
AnyProgresses ==
    {[type |-> "QuestProgress", progress |-> QuestProgress_new(steps)] : steps \in 0..MaxSteps}

AnyCompoundQuests ==
    {CompoundQuest_new(sub_quests) : sub_quests \in SeqsUpTo(LeafQuests(MaxSubSteps), MaxSubQuests)}

AnyQuestInit ==
    /\ terminal = <<7, <<5, 3>>>>
    /\ game_var = MyGame_new(RawGameMap).game_var
    /\ game_static = MyGame_new(RawGameMap).game_static
    /\ last = NoHandler
    /\ quest \in AnyProgresses \cup LeafQuests(MaxSteps) \cup AnyCompoundQuests
    /\ log = <<>>
    /\ qlast = NoCall
    /\ twin = quest
    /\ map_layers = MapLayers_default
    /\ hero = Player_default
    /\ play = NoPlay

AnyQuestSpec == AnyQuestInit /\ [][QuestNext]_vars

\* ------------------------------------------------------------------------
\* Properties of the quests (specification QuestSpec)
\* ------------------------------------------------------------------------

\* The MoveTo events of a log, in order
MoveTos(s) == SelectSeq(s, LAMBDA e : e[1] = "MoveTo")

\* s holds n consecutive entries equal to e
HasRun(s, e, n) == \E i \in 1..(Len(s) - n + 1) : \A j \in i..(i + n - 1) : s[j] = e

\* The number of entries equal to e at the end of s
RECURSIVE TrailingRun(_, _)
TrailingRun(s, e) ==
    IF s = <<>> THEN 0
    ELSE IF s[Len(s)] # e THEN 0
    ELSE 1 + TrailingRun(SubSeq(s, 1, Len(s) - 1), e)

\* The number of entries of s equal to e
RECURSIVE Count(_, _)
Count(s, e) ==
    IF s = <<>> THEN 0
    ELSE (IF s[Len(s)] = e THEN 1 ELSE 0) + Count(SubSeq(s, 1, Len(s) - 1), e)

\* C7: a StepQuest(background, N) is completed exactly when the MoveTo events
\* of its log hold N consecutive ones with the target background; while it is
\* pending its step is 1 + the number of matching MoveTo events since the
\* last MoveTo with another (or no) background, so such a MoveTo puts it back
\* to step 1; for N = 3 the log Water, Water, Sand, Water, Water is not
\* enough and Water, Water, Sand, Water, Water, Water completes it.
C7_StepQuestConsecutive ==
    quest.type = "StepQuest"
    => LET visits == MoveTos(log)
           target == MoveTo(quest.background)
           W == MoveTo("Water")
           S == MoveTo("Sand")
       IN /\ is_completed(quest) <=> HasRun(visits, target, quest.progress.steps)
          /\ ~is_completed(quest) => status(quest) = Pending(1 + TrailingRun(visits, target))
          /\ (/\ visits # <<>>
              /\ visits[Len(visits)] # target
              /\ ~HasRun(visits, target, quest.progress.steps))
                => status(quest) = Pending(1)
          /\ (quest.background = "Water" /\ quest.progress.steps = 3 /\ log = <<W, W, S, W, W>>)
                => ~is_completed(quest)
          /\ (quest.background = "Water" /\ quest.progress.steps = 3 /\ log = <<W, W, S, W, W, W>>)
                => is_completed(quest)

\* C7 witness: StepQuest(Water, 3) has been given Water, Water, Sand, Water,
\* Water, Water and is completed.
C7_Witness ==
    /\ quest.type = "StepQuest" /\ quest.background = "Water" /\ quest.progress.steps = 3
    /\ log = <<MoveTo("Water"), MoveTo("Water"), MoveTo("Sand"),
               MoveTo("Water"), MoveTo("Water"), MoveTo("Water")>>
    /\ is_completed(quest)

\* C8: a PickupQuest(item, N) is completed exactly when its log holds at
\* least N Pickup events of the target item, whatever other events lie in
\* between; while it is pending its step is 1 + the number of those events,
\* so no other event advances or resets it.
C8_PickupQuestCounts ==
    quest.type = "PickupQuest"
    => LET hits == Count(log, Pickup(quest.item))
       IN /\ is_completed(quest) <=> hits >= quest.progress.steps
          /\ ~is_completed(quest) => status(quest) = Pending(1 + hits)

\* C8 witness: PickupQuest(x, 2) has been given a MoveTo, a Pickup of
\* another item and a Die between its two Pickup(x) and is completed by the
\* second one.
C8_Witness ==
    /\ quest.type = "PickupQuest" /\ quest.item = "x" /\ quest.progress.steps = 2
    /\ log = <<Pickup("x"), MoveTo("Water"), Pickup("y"), Die("drown"), Pickup("x")>>
    /\ is_completed(quest)

\* CompoundQuest([StepQuest(Water, 1), PickupQuest(x, 1)]), fresh
WaterThenX == CompoundQuest_new(<<StepQuest_new("Water", 1), PickupQuest_new("x", 1)>>)

\* The same quest after its first sub-quest is completed
WaterThenX_second ==
    [type |-> "CompoundQuest",
     sub_quests |-> <<[type |-> "StepQuest", background |-> "Water",
                       progress |-> [steps |-> 1, status |-> Completed]],
                      [type |-> "PickupQuest", item |-> "x",
                       progress |-> [steps |-> 1, status |-> Pending(1)]]>>,
     progress |-> [steps |-> 2, status |-> Pending(2)]]

\* C9: update on a CompoundQuest that is Pending(k) changes no sub-quest but
\* the k-th (so neither a later sub-quest nor the one that becomes active
\* sees the event), its progress advances by at most one sub-quest, and it
\* advances exactly when the k-th sub-quest is completed after the event; on
\* a Completed CompoundQuest update changes nothing.  For [StepQuest(Water,
\* 1), PickupQuest(x, 1)]: Pickup(x) first changes nothing, Water makes the
\* second sub-quest active and leaves it fresh, and Pickup(x) then completes
\* the quest.
C9_CompoundGating ==
    [][(quest.type = "CompoundQuest" /\ qlast'.op = "update")
        => /\ IF status(quest)[1] = "Pending"
              THEN LET k == status(quest)[2]
                   IN /\ \A j \in 1..Len(quest.sub_quests) :
                            j # k => quest'.sub_quests[j] = quest.sub_quests[j]
                      /\ status(quest') \in {Pending(k), Pending(k + 1), Completed}
                      /\ status(quest') = Pending(k + 1) => k < Len(quest.sub_quests)
                      /\ status(quest') = Completed => k = Len(quest.sub_quests)
                      /\ status(quest') # Pending(k) <=> is_completed(quest'.sub_quests[k])
              ELSE quest' = quest
           /\ (quest = WaterThenX /\ qlast'.event = Pickup("x")) => quest' = WaterThenX
           /\ (quest = WaterThenX /\ qlast'.event = MoveTo("Water")) => quest' = WaterThenX_second
           /\ (quest = WaterThenX_second /\ qlast'.event = Pickup("x")) => is_completed(quest')]_vars

\* C9 witness: [StepQuest(Water, 1), PickupQuest(x, 1)] has just been
\* completed by a Pickup(x) given after the Water visit.
C9_Witness ==
    /\ quest = [WaterThenX_second EXCEPT !.sub_quests[2].progress.status = Completed,
                                         !.progress.status = Completed]
    /\ qlast.op = "update" /\ qlast.event = Pickup("x")

\* C10: next() takes Pending(n) to Pending(n+1) when n < steps and to
\* Completed when n = steps and returns true, and on Completed it returns
\* false and leaves Completed; so a fresh QuestProgress with steps >= 1 is
\* completed exactly when next() has been called at least steps times, and
\* is at step 1 + the number of calls before.
C10_ProgressNext ==
    /\ [](quest.type = "QuestProgress"
            => /\ is_completed(quest) <=> Len(log) >= quest.progress.steps
               /\ ~is_completed(quest) => status(quest) = Pending(1 + Len(log)))
    /\ [][(quest.type = "QuestProgress" /\ qlast'.op = "next")
            => LET n == status(quest)[2]
               IN IF status(quest)[1] = "Pending"
                  THEN /\ qlast'.ret = TRUE
                       /\ n < quest.progress.steps => status(quest') = Pending(n + 1)
                       /\ n = quest.progress.steps => status(quest') = Completed
                       /\ quest'.progress.steps = quest.progress.steps
                  ELSE /\ qlast'.ret = FALSE
                       /\ quest' = quest]_vars

\* C10 witness: a QuestProgress of 3 steps has been completed by the third
\* next() and a fourth next() has returned false.
C10_Witness ==
    /\ quest.type = "QuestProgress" /\ quest.progress.steps = 3
    /\ Len(log) = 4
    /\ qlast.op = "next" /\ qlast.ret = FALSE
    /\ is_completed(quest)

\* C11: once a StepQuest, PickupQuest or CompoundQuest is completed,
\* update(event) leaves it as it is for every event (its status and all its
\* sub-quests), and a step that takes a completed quest back to Pending is a
\* reset().
C11_CompletedIsTerminal ==
    [][(quest.type \in {"StepQuest", "PickupQuest", "CompoundQuest"} /\ is_completed(quest))
        => /\ qlast'.op = "update" => quest' = quest
           /\ ~is_completed(quest') => (qlast'.op = "reset" /\ status(quest') = Pending(1))]_vars

\* C11 witness: a completed StepQuest has just been given a MoveTo with
\* another background and is still completed.
C11_Witness ==
    /\ quest.type = "StepQuest" /\ is_completed(quest)
    /\ Len(log) > quest.progress.steps
    /\ qlast.op = "update" /\ qlast.event = MoveTo("Sand")

\* C20: after reset() a quest is completed on exactly the same events as a
\* quest built anew with the same parameters: in every state the quest is
\* completed if and only if its twin is.
C20_ResetBehavesAsNew ==
    quest.type \in {"StepQuest", "PickupQuest", "CompoundQuest"}
    => (is_completed(quest) <=> is_completed(twin))

\* ------------------------------------------------------------------------
\* MapLayers as a state machine: a MapLayers is built from a raw map and then
\* given any sequence of calls of update_player (for a player moved anywhere),
\* remove_foreground and get_style_characters.
\* ------------------------------------------------------------------------

\* Largest length of should_draw between two calls of get_style_characters
MaxDirty == 3

\* The positions a raw map of the state machine may list, and one more
LayerListed == {<<1, 1>>, <<2, 1>>}

LayerPositions == LayerListed \cup {<<1, 2>>}

LayerObjects == {Grass, Barrier, Water, Object("x"), Sign("hi")}

LayerRawMaps == UNION {[D -> LayerObjects] : D \in SUBSET LayerListed}

LayersInit ==
    /\ terminal = <<7, <<5, 3>>>>
    /\ game_var = MyGame_new(RawGameMap).game_var
    /\ game_static = MyGame_new(RawGameMap).game_static
    /\ last = NoHandler
    /\ quest = NoQuest
    /\ log = <<>>
    /\ qlast = NoCall
    /\ twin = NoQuest
    /\ \E raw_game_map \in LayerRawMaps : map_layers = MapLayers_from(raw_game_map)
    /\ hero = Player_default
    /\ play = [NoPlay EXCEPT !.op = "from"]

\* player.move_to(position); map_layers.update_player(&mut player)
CallUpdatePlayer(position) ==
    LET up == MapLayers_update_player(map_layers, move_to(hero, position))
    IN /\ Len(up[1].should_draw) <= MaxDirty
       /\ map_layers' = up[1]
       /\ hero' = up[2]
       /\ play' = [NoPlay EXCEPT !.op = "update_player"]
       /\ UNCHANGED <<game_vars, quest_vars>>

CallRemoveForeground(position) ==
    /\ Len(map_layers.should_draw) < MaxDirty
    /\ map_layers' = MapLayers_remove_foreground(map_layers, position)
    /\ play' = [NoPlay EXCEPT !.op = "remove_foreground"]
    /\ UNCHANGED <<hero, game_vars, quest_vars>>

CallGetStyleCharacters ==
    /\ map_layers' = MapLayers_get_style_characters(map_layers)[1]
    /\ play' = [NoPlay EXCEPT !.op = "get_style_characters",
                              !.drawn = MapLayers_get_style_characters(map_layers)[2]]
    /\ UNCHANGED <<hero, game_vars, quest_vars>>

LayersNext ==
    \/ \E position \in LayerPositions : CallUpdatePlayer(position)
    \/ \E position \in LayerPositions : CallRemoveForeground(position)
    \/ CallGetStyleCharacters

LayersSpec == LayersInit /\ [][LayersNext]_vars

\* ------------------------------------------------------------------------
\* Properties of MapLayers (specification LayersSpec)
\* ------------------------------------------------------------------------

\* The barrier set and the water set are the positions whose background is
\* Barrier and Water, they are disjoint, and backgrounds and foregrounds are
\* maps from positions (one entry per position at most).
LayersConsistent ==
    /\ map_layers.barriers
          = {p \in DOMAIN map_layers.backgrounds : map_layers.backgrounds[p] = Barrier}
    /\ map_layers.waters
          = {p \in DOMAIN map_layers.backgrounds : map_layers.backgrounds[p] = Water}
    /\ map_layers.barriers \cap map_layers.waters = {}
    /\ map_layers.backgrounds = [p \in DOMAIN map_layers.backgrounds |-> map_layers.backgrounds[p]]
    /\ map_layers.foregrounds = [p \in DOMAIN map_layers.foregrounds |-> map_layers.foregrounds[p]]

\* No call changes backgrounds, barriers or waters, and a call that changes
\* foregrounds removes one entry of it.
LayersOnlyLoseForegrounds ==
    [][/\ map_layers'.backgrounds = map_layers.backgrounds
       /\ map_layers'.barriers = map_layers.barriers
       /\ map_layers'.waters = map_layers.waters
       /\ \/ map_layers'.foregrounds = map_layers.foregrounds
          \/ \E position \in DOMAIN map_layers.foregrounds :
                map_layers'.foregrounds
                    = [p \in DOMAIN map_layers.foregrounds \ {position} |-> map_layers.foregrounds[p]]]_vars

\* C15: in every reachable state of a MapLayers the barrier set is exactly the
\* positions with background Barrier, the water set exactly those with
\* background Water, the two are disjoint, and a position has at most one
\* background and one foreground; after construction the only change to these
\* mappings is the removal of a foreground entry.
C15_LayersInvariant == []LayersConsistent /\ LayersOnlyLoseForegrounds

\* C15 witness: layers with a barrier and a water position have lost their
\* only foreground to remove_foreground.
C15_Witness ==
    /\ play.op = "remove_foreground"
    /\ map_layers.barriers # {} /\ map_layers.waters # {}
    /\ map_layers.foregrounds = <<>>
    /\ map_layers.should_draw # <<>>
    /\ <<1, 2>> \in {map_layers.should_draw[i] : i \in 1..Len(map_layers.should_draw)}

\* ------------------------------------------------------------------------
\* The game over MapLayers: the controller that moves the Player of player.rs
\* over a MapLayers, emits events and drains the dirty list once per tick.
\* ------------------------------------------------------------------------

\* The raw map of the game over MapLayers: the map above with a second
\* object in the room.
PlayRawGameMap ==
    [p \in DOMAIN RawGameMap \cup {<<4, 4>>} |-> IF p = <<4, 4>> THEN Object("y") ELSE RawGameMap[p]]

Deltas == {0 - 1, 0, 1} \X {0 - 1, 0, 1}

\* The positions of a sequence of positions or of (position, cell) pairs
Range(seq) == {seq[i] : i \in 1..Len(seq)}

Positions(cells) == [i \in 1..Len(cells) |-> cells[i][1]]

\* resolve_move: Some(candidate), or None when nothing moves
resolve_move(current_position, delta, map) ==
    IF is_origin(delta) THEN NoPosition
    ELSE IF MapLayers_is_barrier(map, Position_add(current_position, delta)) THEN NoPosition
    ELSE SomePosition(Position_add(current_position, delta))

\* resolve_interaction, run after the player was moved: the oxygen rule and the
\* MoveTo event, the foreground rule, the death rule.
resolve_interaction(player, map, game_status) ==
    LET position == player.position
        p1 == Player_interact_background(player, map)
        background == IF position \in DOMAIN map.backgrounds
                      THEN map.backgrounds[position][1] ELSE "None"
        foreground == IF position \in DOMAIN map.foregrounds
                      THEN map.foregrounds[position] ELSE NoBackground
        picks == foreground[1] = "Object"
        p2 == IF picks THEN [p1 EXCEPT !.bag = Append(p1.bag, foreground[2])] ELSE p1
        m2 == IF picks THEN MapLayers_remove_foreground(map, position) ELSE map
        dies == p2.oxygen <= 0
    IN [player |-> p2,
        map_layers |-> m2,
        status |-> IF dies THEN "Died" ELSE game_status,
        events |-> <<MoveTo(background)>>
                      \o (IF picks THEN <<Pickup(foreground[2])>> ELSE <<>>)
                      \o (IF dies THEN <<Die("drown")>> ELSE <<>>),
        message |-> IF foreground[1] = "Sign" THEN foreground[2] ELSE ""]

\* One tick: movement, interaction, then the player overlay and the drain of
\* the dirty list.  While Died no input moves the player.
tick(map, player, game_status, delta) ==
    LET target == IF game_status = "Died" THEN NoPosition
                  ELSE resolve_move(player.position, delta, map)
        r == IF target = NoPosition
             THEN [player |-> player, map_layers |-> map, status |-> game_status,
                   events |-> <<>>, message |-> ""]
             ELSE resolve_interaction(move_to(player, <<target[2], target[3]>>), map, game_status)
        up == MapLayers_update_player(r.map_layers, r.player)
        dr == MapLayers_get_style_characters(up[1])
    IN [player |-> up[2], map_layers |-> dr[1], status |-> r.status,
        events |-> r.events, message |-> r.message, drawn |-> dr[2]]

\* Start and restart: the layers are built from the raw map, the player is a
\* new one, put on the start position.
start(raw_game_map) ==
    MapLayers_update_player(MapLayers_from(raw_game_map), move_to(Player_default, <<3, 3>>))

\* The screen after the cells of one drain were handed to set_screen_char in
\* their order: each position holds the last cell written to it.
set_screen_chars(screen, cells) ==
    [p \in DOMAIN screen \cup Range(Positions(cells)) |->
        IF p \in Range(Positions(cells))
        THEN LET i == CHOOSE i \in 1..Len(cells) :
                          /\ cells[i][1] = p
                          /\ \A j \in (i + 1)..Len(cells) : cells[j][1] # p
             IN cells[i][2]
        ELSE screen[p]]

PlayInit == Init /\ terminal = <<7, <<5, 3>>>>

PlayStart ==
    /\ play.op = "new"
    /\ map_layers' = start(PlayRawGameMap)[1]
    /\ hero' = start(PlayRawGameMap)[2]
    /\ play' = [NoPlay EXCEPT !.op = "start"]
    /\ UNCHANGED <<game_vars, quest_vars>>

PlayTick(delta) ==
    /\ play.op # "new"
    /\ map_layers' = tick(map_layers, hero, play.status, delta).map_layers
    /\ hero' = tick(map_layers, hero, play.status, delta).player
    /\ play' = [op |-> "tick",
                status |-> tick(map_layers, hero, play.status, delta).status,
                events |-> tick(map_layers, hero, play.status, delta).events,
                message |-> tick(map_layers, hero, play.status, delta).message,
                drawn |-> tick(map_layers, hero, play.status, delta).drawn,
                screen |-> set_screen_chars(play.screen,
                                            tick(map_layers, hero, play.status, delta).drawn)]
    /\ UNCHANGED <<game_vars, quest_vars>>

PlayRestart ==
    /\ play.status = "Died"
    /\ map_layers' = start(PlayRawGameMap)[1]
    /\ hero' = start(PlayRawGameMap)[2]
    /\ play' = [NoPlay EXCEPT !.op = "restart", !.screen = play.screen]
    /\ UNCHANGED <<game_vars, quest_vars>>

PlayNext ==
    \/ PlayStart
    \/ \E delta \in Deltas : PlayTick(delta)
    \/ PlayRestart

PlaySpec == PlayInit /\ [][PlayNext]_vars

\* ------------------------------------------------------------------------
\* Properties of the game over MapLayers (specification PlaySpec)
\* ------------------------------------------------------------------------

IsPlayTick == play'.op = "tick"

PlayMoved == hero'.position # hero.position

HoldsObject(map, position) ==
    position \in DOMAIN map.foregrounds /\ map.foregrounds[position][1] = "Object"

\* The positions of the raw map that hold an object
ObjectPositions == {p \in DOMAIN PlayRawGameMap : PlayRawGameMap[p][1] = "Object"}

\* A tick that moves the player onto a position holding Object(item) appends
\* item to the bag, emits Pickup(item), removes the foreground entry and has
\* the position redrawn; any other tick leaves the bag and the foregrounds as
\* they are and emits no Pickup.
PickupConsumes ==
    [][IsPlayTick
        => IF PlayMoved /\ HoldsObject(map_layers, hero'.position)
           THEN LET item == map_layers.foregrounds[hero'.position][2]
                IN /\ hero'.bag = Append(hero.bag, item)
                   /\ Pickup(item) \in Range(play'.events)
                   /\ hero'.position \notin DOMAIN map_layers'.foregrounds
                   /\ hero'.position \in Range(Positions(play'.drawn))
           ELSE /\ hero'.bag = hero.bag
                /\ map_layers'.foregrounds = map_layers.foregrounds
                /\ \A e \in Range(play'.events) : e[1] # "Pickup"]_vars

\* The bag is as long as the number of object foregrounds removed from the map.
BagCountsRemoved ==
    play.op # "new"
    => Len(hero.bag) = Cardinality(ObjectPositions \ DOMAIN map_layers.foregrounds)

LoadMarksAll ==
    play.op \in {"start", "restart"} => DOMAIN PlayRawGameMap \subseteq Range(map_layers.should_draw)

\* After every tick the dirty list is empty.
DirtyEmptyAfterTick == play.op = "tick" => map_layers.should_draw = <<>>

\* The positions a tick redraws are those in the dirty list before it (the
\* load's, in the first tick) and those the tick marks: the player's old and
\* new position when the player moves.
DrainReturnsMarked ==
    [][IsPlayTick
        => Range(Positions(play'.drawn))
              = Range(map_layers.should_draw)
                  \cup (IF PlayMoved THEN {hero.position, hero'.position} ELSE {})]_vars

C21_StatusInRange ==
    quest.type \in {"QuestProgress", "CompoundQuest", "Panicked"}
    => /\ quest.type # "Panicked"
       /\ \/ status(quest) = Completed
          \/ /\ status(quest)[1] = "Pending"
             /\ 1 <= status(quest)[2] /\ status(quest)[2] <= quest.progress.steps
       /\ (quest.type = "CompoundQuest" /\ status(quest) # Completed)
            => status(quest)[2] \in 1..Len(quest.sub_quests)

\* What does hold: the same for steps >= 1 and a list that is not empty.
StatusInRangeOfProperQuests ==
    (quest.type \in {"QuestProgress", "CompoundQuest", "Panicked"} /\ quest.progress.steps >= 1)
    => /\ quest.type # "Panicked"
       /\ \/ status(quest) = Completed
          \/ /\ status(quest)[1] = "Pending"
             /\ 1 <= status(quest)[2] /\ status(quest)[2] <= quest.progress.steps
       /\ quest.type = "CompoundQuest" => quest.progress.steps = Len(quest.sub_quests)

\* The sub-quests before the active one are completed, the active one is
\* not, the ones after it are as they were built; all of them are completed
\* when the quest is.
CompoundInOrder(q) ==
    IF status(q)[1] = "Pending"
    THEN LET k == status(q)[2]
         IN /\ k \in 1..Len(q.sub_quests)
            /\ \A j \in 1..(k - 1) : is_completed(q.sub_quests[j])
            /\ ~is_completed(q.sub_quests[k])
            /\ \A j \in (k + 1)..Len(q.sub_quests) : q.sub_quests[j] = Rebuilt(q.sub_quests[j])
    ELSE \A j \in 1..Len(q.sub_quests) : is_completed(q.sub_quests[j])

\* C22: a CompoundQuest is in order when it is built, and update() takes a
\* quest in order to a quest in order; so after every update of a quest that
\* was only ever updated, Pending(k) comes with sub-quests 1..k-1 completed,
\* sub-quest k not completed and the later ones in their initial state, and
\* Completed with every sub-quest completed.
C22_CompoundInOrder ==
    /\ []((quest.type = "CompoundQuest" /\ qlast.op = "new") => CompoundInOrder(quest))
    /\ [][(quest.type = "CompoundQuest" /\ CompoundInOrder(quest) /\ qlast'.op = "update")
            => CompoundInOrder(quest')]_vars

\* C22 witness: an update has just left a quest of two sub-quests at
\* Pending(2), the first sub-quest completed and the second one under way.
C22_Witness ==
    /\ quest.type = "CompoundQuest" /\ Len(quest.sub_quests) = 2
    /\ qlast.op = "update"
    /\ status(quest) = Pending(2)
    /\ CompoundInOrder(quest)
    /\ status(quest.sub_quests[2]) = Pending(2)


\* ------------------------------------------------------------------------
\* Properties of the redraw (specification PlaySpec)
\* ------------------------------------------------------------------------

\* The positions of the screen that show the player glyph
PlayerGlyphs(screen) == {p \in DOMAIN screen : screen[p][1] = PLAYER_ICON}

====
